---- MODULE Spec2Model ----
(***************************************************************************)
(* Model of src/app.py, the Streamlit script that joins an uploaded CSV of *)
(* per-country metrics to a world boundary dataset and renders a folium    *)
(* map.  One script run is a sequence of steps (pc); Streamlit re-executes *)
(* the script from the top on every user interaction.                      *)
(*                                                                         *)
(* Strings are sequences of one-character strings.  A table cell is a      *)
(* record [present, v]; present = FALSE is pandas' missing value (NaN).    *)
(* Metric columns are identified by their position 1..k in the upload.     *)
(* Uploads are well-formed CSVs with a text `country` column, or a file    *)
(* that pd.read_csv rejects.                                               *)
(***************************************************************************)
EXTENDS Integers, Sequences, FiniteSets

VARIABLES
    uploaded_file,  \* the file_uploader widget's value (kind "none" when empty)
    remote,         \* the GeoJSON behind world_geojson_url: raw name -> geometry
    cache,          \* st.cache_data store of get_sample_data
    pc,             \* position of the running script
    exc,            \* where an unhandled exception was raised ("" when none)
    reruns,         \* number of re-executions after the upload
    bound,          \* names bound in the script's namespace in this run
    user_df,        \* the parsed upload
    world_gdf,      \* the fetched boundary records
    merged_gdf,     \* the joined records
    color_dict,     \* metric column -> colour
    m,              \* the folium map: its GeoJson layer and its markers
    i,              \* index of the next row of the thumbnail loop
    page,           \* what the run has put on the page
    history         \* outputs of the completed runs of the current upload

vars == <<uploaded_file, remote, cache, pc, exc, reruns, bound, user_df,
          world_gdf, merged_gdf, color_dict, m, i, page, history>>

---------------------------------------------------------------------------
(* Bounds of the model *)

MaxRows == 2
MaxReruns == 1

---------------------------------------------------------------------------
(* Strings *)

LowerCase == <<"a", "e", "i", "n", "t">>
UpperCase == <<"A", "E", "I", "N", "T">>

IsSpace(c) == c = " "

IndexIn(seq, c) == IF \E j \in 1..Len(seq) : seq[j] = c
                   THEN CHOOSE j \in 1..Len(seq) : seq[j] = c
                   ELSE 0

Upper(c) == IF IndexIn(LowerCase, c) > 0 THEN UpperCase[IndexIn(LowerCase, c)] ELSE c
Lower(c) == IF IndexIn(UpperCase, c) > 0 THEN LowerCase[IndexIn(UpperCase, c)] ELSE c

RECURSIVE LStrip(_)
LStrip(s) == IF s # <<>> /\ IsSpace(Head(s)) THEN LStrip(Tail(s)) ELSE s

RECURSIVE RStrip(_)
RStrip(s) == IF s # <<>> /\ IsSpace(s[Len(s)])
             THEN RStrip(SubSeq(s, 1, Len(s) - 1))
             ELSE s

\* str.strip(): leading and trailing whitespace removed
str_strip(s) == RStrip(LStrip(s))

str_capitalize_first_only(s) ==
    IF s = <<>> THEN s ELSE <<Upper(s[1])>> \o Tail(s)

\* str.capitalize(): first character upper-cased, the rest lower-cased
str_capitalize(s) ==
    IF s = <<>> THEN s
    ELSE <<Upper(s[1])>> \o [j \in 1..(Len(s) - 1) |-> Lower(s[j + 1])]

\* .str.strip().str.capitalize()
Normalize(s) == str_capitalize(str_strip(s))

---------------------------------------------------------------------------
(* Inputs *)

\* colors (line 80)
colors == <<"seagreen", "royalblue", "orange", "pink", "lime", "darkblue">>

NA == [present |-> FALSE, v |-> 0]
Val(n) == [present |-> TRUE, v |-> n]
isna(c) == ~c.present

\* the cell patterns of an uploaded row: the sample's first row, a row of
\* zeros, and a row whose first metric cell is blank
IndiaRow == <<10, 4, 3, 0, 0, 0>>
Patterns == {"india", "zeros", "blankfirst"}
Cells(p, k) ==
    [j \in 1..k |->
        CASE p = "india"      -> Val(IF j <= Len(IndiaRow) THEN IndiaRow[j] ELSE 0)
          [] p = "zeros"      -> Val(0)
          [] p = "blankfirst" -> IF j = 1 THEN NA ELSE Val(1)]

UploadNames == { <<" ", "i", "N">>, <<"a", " ", "T", " ">> }
BoundaryNames == <<  <<"I", "N", " ">>, <<"A", " ", "t">>  >>

\* numbers of metric columns: none, one, the palette size, one more
MetricCounts == {0, 1, Len(colors), Len(colors) + 1}

RawRows == [country : UploadNames, pattern : Patterns]

RECURSIVE SeqsUpTo(_, _)
SeqsUpTo(S, n) ==
    IF n = 0 THEN {<<>>}
    ELSE LET shorter == SeqsUpTo(S, n - 1)
         IN  shorter \cup {Append(q, x) : q \in {t \in shorter : Len(t) = n - 1}, x \in S}

NoFile == [kind |-> "none", k |-> 0, rows |-> <<>>]
Malformed == [kind |-> "malformed", k |-> 0, rows |-> <<>>]
CsvFiles == {[kind |-> "csv", k |-> k, rows |-> r] :
                k \in MetricCounts, r \in SeqsUpTo(RawRows, MaxRows)}
Files == CsvFiles \cup {Malformed}

\* geometry of a boundary feature; "absent" means the dataset has no such feature
Geoms == {"none", "polygon", "invalid", "empty"}
is_valid(g) == g \in {"polygon", "empty"}
is_empty(g) == g = "empty"
Remotes == [1..Len(BoundaryNames) -> Geoms \cup {"absent"}]

---------------------------------------------------------------------------
(* Data frames *)

NoName == <<"NaN">>

EmptyFrame == [k |-> 0, rows |-> <<>>]
EmptyMap == [layer |-> <<>>, markers |-> <<>>]
BlankPage == [download |-> FALSE, info |-> FALSE, dataframe |-> FALSE,
              error |-> FALSE, exception |-> FALSE, map |-> FALSE,
              map_markers |-> <<>>, legend |-> <<>>]

\* pd.read_csv on a well-formed upload
read_csv(f) ==
    [k |-> f.k,
     rows |-> [r \in 1..Len(f.rows) |->
                 [country |-> f.rows[r].country,
                  vals |-> Cells(f.rows[r].pattern, f.k),
                  u |-> r]]]

ReadCsvRaises(f) == f.kind = "malformed"

RECURSIVE FeaturesFrom(_, _)
FeaturesFrom(r, b) ==
    IF b > Len(BoundaryNames) THEN <<>>
    ELSE (IF r[b] = "absent" THEN <<>>
          ELSE << [name |-> BoundaryNames[b], geometry |-> r[b], b |-> b] >>)
         \o FeaturesFrom(r, b + 1)

\* gpd.read_file on the fetched GeoJSON
read_file(r) == FeaturesFrom(r, 1)

---------------------------------------------------------------------------
(* The join (lines 64-72) *)

\* user_df['country'] = user_df['country'].str.strip().str.capitalize()
NormalizeCountry(df) ==
    [df EXCEPT !.rows = [r \in 1..Len(df.rows) |->
                            [df.rows[r] EXCEPT !.country = Normalize(@)]]]

\* world_gdf['name'] = world_gdf['name'].str.strip().str.capitalize()
NormalizeName(gdf) ==
    [r \in 1..Len(gdf) |-> [gdf[r] EXCEPT !.name = Normalize(@)]]

Joined(w, r) ==
    [name |-> w.name, geometry |-> w.geometry, b |-> w.b,
     country |-> r.country, vals |-> r.vals, u |-> r.u]

Unmatched(w, k) ==
    [name |-> w.name, geometry |-> w.geometry, b |-> w.b,
     country |-> NoName, vals |-> [j \in 1..k |-> NA], u |-> 0]

Matches(w, df) == SelectSeq(df.rows, LAMBDA r : r.country = w.name)

\* the joined rows of one left row with its matching right rows, in the
\* right table's order
MatchedRows(w, df) ==
    [t \in 1..Len(Matches(w, df)) |-> Joined(w, Matches(w, df)[t])]

\* how='inner': a left row without a match yields nothing
InnerRows(w, df) == MatchedRows(w, df)

\* the joined rows of one left row under how='left': one per matching right
\* row, or a single row with empty right fields
LeftRows(w, df) ==
    IF Matches(w, df) = <<>> THEN << Unmatched(w, df.k) >> ELSE MatchedRows(w, df)

RECURSIVE MergeFrom(_, _, _)
MergeFrom(gdf, df, b) ==
    IF b > Len(gdf) THEN <<>>
    ELSE LeftRows(gdf[b], df) \o MergeFrom(gdf, df, b + 1)

\* world_gdf.merge(user_df, left_on='name', right_on='country', how='left')
merge(gdf, df) == MergeFrom(gdf, df, 1)

dropna_any(gdf) ==
    SelectSeq(gdf, LAMBDA r : r.geometry # "none" /\ r.u # 0
                              /\ \A j \in 1..Len(r.vals) : ~isna(r.vals[j]))

\* merged_gdf.dropna(subset=['geometry'])
dropna(gdf) == SelectSeq(gdf, LAMBDA r : r.geometry # "none")

---------------------------------------------------------------------------
(* Colours, style and markers (lines 74-182) *)

CachedMap == IF history = <<>> THEN EmptyMap
             ELSE [layer |-> <<>>, markers |-> history[Len(history)].markers]

\* folium.Map(...): a new map with no children
FoliumMap == EmptyMap

Min(a, b) == IF a < b THEN a ELSE b

ColorDictTruncates(k) ==
    [raised |-> FALSE, value |-> [j \in 1..Min(k, Len(colors)) |-> colors[j]]]

\* {metric_cols[i]: colors[i] for i in range(len(metric_cols))}: colors[i]
\* raises IndexError past the palette
ColorDict(k) ==
    IF k > Len(colors) THEN [raised |-> TRUE, value |-> <<>>]
    ELSE [raised |-> FALSE, value |-> [j \in 1..k |-> colors[j]]]

FirstMetricDefaults(k) == FALSE

\* metric_cols[0] raises IndexError when there is no metric column
FirstMetricRaises(k) == k = 0

\* pd.isna(x.get(metric_cols[0])), for k >= 1
FirstMetricMissing(row) == Len(row.vals) = 0 \/ isna(row.vals[1])

FillColorNonZero(row) ==
    IF ~FirstMetricMissing(row) /\ row.vals[1].v # 0 THEN "red" ELSE "grey"

\* 'fillColor' of style_function
FillColor(row) == IF ~FirstMetricMissing(row) THEN "red" ELSE "grey"

\* if not pd.isna(row.get(metric_cols[0])), in the thumbnail loop
HasData(row) == ~FirstMetricMissing(row)

GuardNonEmptyOnly(g) == ~is_empty(g)
GuardValidOnly(g) == is_valid(g)

\* row['geometry'].is_valid and not row['geometry'].is_empty
GeometryGuard(g) == is_valid(g) /\ ~is_empty(g)

\* row['geometry'].centroid.y: the centroid of an empty geometry has no coordinates
CentroidRaises(g) == is_empty(g)

\* the DivIcon marker of row r: the stacked bar of its metrics in the
\* palette's colours, at the centroid of its geometry
Marker(r, row, cd) ==
    [row |-> r, tooltip |-> row.name, b |-> row.b, u |-> row.u,
     bars |-> row.vals, palette |-> cd]

---------------------------------------------------------------------------
(* The script *)

Final == {"done", "stopped", "crashed"}

Init ==
    /\ uploaded_file = NoFile
    /\ remote \in Remotes
    /\ cache = "empty"
    /\ pc = "start"
    /\ exc = ""
    /\ reruns = 0
    /\ bound = {}
    /\ user_df = EmptyFrame
    /\ world_gdf = <<>>
    /\ merged_gdf = <<>>
    /\ color_dict = <<>>
    /\ m = EmptyMap
    /\ i = 0
    /\ page = BlankPage
    /\ history = <<>>

Raise(site) ==
    /\ pc' = "crashed"
    /\ exc' = site
    /\ page' = [page EXCEPT !.exception = TRUE]

\* lines 12-48: page set-up, the cached sample and its download button
ScriptStart ==
    /\ pc = "start"
    /\ cache' = "sample"
    /\ bound' = bound \cup {"sample_df"}
    /\ page' = [page EXCEPT !.download = TRUE]
    /\ pc' = IF uploaded_file.kind = "none" THEN "info" ELSE "read"
    /\ UNCHANGED <<uploaded_file, remote, exc, reruns, user_df, world_gdf,
                   merged_gdf, color_dict, m, i, history>>

\* lines 211-212: no file yet
NoUpload ==
    /\ pc = "info"
    /\ page' = [page EXCEPT !.info = TRUE]
    /\ pc' = "done"
    /\ UNCHANGED <<uploaded_file, remote, cache, exc, reruns, bound, user_df,
                   world_gdf, merged_gdf, color_dict, m, i, history>>

\* lines 50-54
ReadCsv ==
    /\ pc = "read"
    /\ IF ReadCsvRaises(uploaded_file)
       THEN /\ Raise("read_csv")
            /\ UNCHANGED <<user_df, bound>>
       ELSE /\ user_df' = read_csv(uploaded_file)
            /\ bound' = bound \cup {"user_df"}
            /\ page' = [page EXCEPT !.dataframe = TRUE]
            /\ pc' = "fetch"
            /\ exc' = exc
    /\ UNCHANGED <<uploaded_file, remote, cache, reruns, world_gdf,
                   merged_gdf, color_dict, m, i, history>>

\* lines 58-59: the fetch succeeds
FetchOk ==
    /\ pc = "fetch"
    /\ world_gdf' = read_file(remote)
    /\ bound' = bound \cup {"world_gdf"}
    /\ pc' = "normalize"
    /\ UNCHANGED <<uploaded_file, remote, cache, exc, reruns, user_df,
                   merged_gdf, color_dict, m, i, page, history>>

AfterStopContinues == "normalize"

\* st.stop() (line 62) ends the run
AfterStop == "stopped"

\* lines 60-62: the fetch raises; the message is shown and the run is stopped
FetchFail ==
    /\ pc = "fetch"
    /\ page' = [page EXCEPT !.error = TRUE]
    /\ pc' = AfterStop
    /\ UNCHANGED <<uploaded_file, remote, cache, exc, reruns, bound, user_df,
                   world_gdf, merged_gdf, color_dict, m, i, history>>

\* lines 66-67
NormalizeStep ==
    /\ pc = "normalize"
    /\ user_df' = NormalizeCountry(user_df)
    /\ world_gdf' = NormalizeName(world_gdf)
    /\ pc' = "merge"
    /\ UNCHANGED <<uploaded_file, remote, cache, exc, reruns, bound,
                   merged_gdf, color_dict, m, i, page, history>>

\* line 69
MergeStep ==
    /\ pc = "merge"
    /\ merged_gdf' = merge(world_gdf, user_df)
    /\ bound' = bound \cup {"merged_gdf"}
    /\ pc' = "dropna"
    /\ UNCHANGED <<uploaded_file, remote, cache, exc, reruns, user_df,
                   world_gdf, color_dict, m, i, page, history>>

\* line 72
DropNaStep ==
    /\ pc = "dropna"
    /\ merged_gdf' = dropna(merged_gdf)
    /\ pc' = "map"
    /\ UNCHANGED <<uploaded_file, remote, cache, exc, reruns, bound, user_df,
                   world_gdf, color_dict, m, i, page, history>>

\* line 76
CreateMap ==
    /\ pc = "map"
    /\ m' = FoliumMap
    /\ bound' = bound \cup {"m"}
    /\ pc' = "colors"
    /\ UNCHANGED <<uploaded_file, remote, cache, exc, reruns, user_df,
                   world_gdf, merged_gdf, color_dict, i, page, history>>

\* lines 79-81
BuildColorDict ==
    /\ pc = "colors"
    /\ IF ColorDict(user_df.k).raised
       THEN /\ Raise("color_dict")
            /\ UNCHANGED <<color_dict, bound>>
       ELSE /\ color_dict' = ColorDict(user_df.k).value
            /\ bound' = bound \cup {"color_dict"}
            /\ pc' = "geojson"
            /\ UNCHANGED <<exc, page>>
    /\ UNCHANGED <<uploaded_file, remote, cache, reruns, user_df, world_gdf,
                   merged_gdf, m, i, history>>

\* lines 84-95: the GeoJson layer; the style function runs on its features
GeoJsonLayer ==
    /\ pc = "geojson"
    /\ IF merged_gdf # <<>> /\ FirstMetricRaises(user_df.k)
       THEN /\ Raise("style_function")
            /\ UNCHANGED <<m, i>>
       ELSE /\ m' = [m EXCEPT !.layer =
                        [r \in 1..Len(merged_gdf) |-> FillColor(merged_gdf[r])]]
            /\ i' = 1
            /\ pc' = "loop"
            /\ UNCHANGED <<exc, page>>
    /\ UNCHANGED <<uploaded_file, remote, cache, reruns, bound, user_df,
                   world_gdf, merged_gdf, color_dict, history>>

\* lines 98-182: one iteration of the thumbnail loop.  The data check raises
\* like the style function does; the centroid is read only under the guard.
LoopIter ==
    /\ pc = "loop"
    /\ i <= Len(merged_gdf)
    /\ LET row == merged_gdf[i] IN
       IF FirstMetricRaises(user_df.k)
       THEN /\ Raise("data_check")
            /\ UNCHANGED <<m, i>>
       ELSE IF HasData(row) /\ GeometryGuard(row.geometry)
                            /\ CentroidRaises(row.geometry)
       THEN /\ Raise("centroid")
            /\ UNCHANGED <<m, i>>
       ELSE /\ m' = IF HasData(row) /\ GeometryGuard(row.geometry)
                    THEN [m EXCEPT !.markers = Append(@, Marker(i, row, color_dict))]
                    ELSE m
            /\ i' = i + 1
            /\ UNCHANGED <<pc, exc, page>>
    /\ UNCHANGED <<uploaded_file, remote, cache, reruns, bound, user_df,
                   world_gdf, merged_gdf, color_dict, history>>

\* the loop is exhausted
LoopExit ==
    /\ pc = "loop"
    /\ i > Len(merged_gdf)
    /\ pc' = "render"
    /\ UNCHANGED <<uploaded_file, remote, cache, exc, reruns, bound, user_df,
                   world_gdf, merged_gdf, color_dict, m, i, page, history>>

\* lines 188-189
Render ==
    /\ pc = "render"
    /\ page' = [page EXCEPT !.map = TRUE, !.map_markers = m.markers]
    /\ pc' = "legend"
    /\ UNCHANGED <<uploaded_file, remote, cache, exc, reruns, bound, user_df,
                   world_gdf, merged_gdf, color_dict, m, i, history>>

\* lines 191-209
Legend ==
    /\ pc = "legend"
    /\ page' = [page EXCEPT !.legend = color_dict]
    /\ pc' = "done"
    /\ history' = Append(history, [merged |-> merged_gdf, layer |-> m.layer,
                                   markers |-> m.markers])
    /\ UNCHANGED <<uploaded_file, remote, cache, exc, reruns, bound, user_df,
                   world_gdf, merged_gdf, color_dict, m, i>>

\* a new execution of the script starts with an empty namespace and page
Restart ==
    /\ pc' = "start"
    /\ exc' = ""
    /\ bound' = {}
    /\ user_df' = EmptyFrame
    /\ world_gdf' = <<>>
    /\ merged_gdf' = <<>>
    /\ color_dict' = <<>>
    /\ m' = EmptyMap
    /\ i' = 0
    /\ page' = BlankPage

\* line 48: the user uploads a file, which re-executes the script
UploadFile ==
    /\ pc \in Final
    /\ uploaded_file.kind = "none"
    /\ uploaded_file' \in Files
    /\ Restart
    /\ UNCHANGED <<remote, cache, reruns, history>>

\* any other interaction (the download button) re-executes the script
Rerun ==
    /\ pc \in Final
    /\ uploaded_file.kind # "none"
    /\ reruns < MaxReruns
    /\ reruns' = reruns + 1
    /\ Restart
    /\ UNCHANGED <<uploaded_file, remote, cache, history>>

Next ==
    \/ ScriptStart
    \/ NoUpload
    \/ ReadCsv
    \/ FetchOk
    \/ FetchFail
    \/ NormalizeStep
    \/ MergeStep
    \/ DropNaStep
    \/ CreateMap
    \/ BuildColorDict
    \/ GeoJsonLayer
    \/ LoopIter
    \/ LoopExit
    \/ Render
    \/ Legend
    \/ UploadFile
    \/ Rerun

Spec == Init /\ [][Next]_vars

---------------------------------------------------------------------------
(* Vocabulary of the properties, stated on the inputs of the run *)

Range(seq) == {seq[j] : j \in 1..Len(seq)}

SameLetter(c, d) ==
    \/ c = d
    \/ \E j \in 1..Len(LowerCase) : {c, d} = {LowerCase[j], UpperCase[j]}

\* n is x with its leading and trailing blanks removed, its first character
\* in upper case and the others in lower case
TrimCap(x, n) ==
    \E lo \in 0..Len(x) : \E hi \in lo..Len(x) :
        /\ \A j \in 1..lo : IsSpace(x[j])
        /\ \A j \in (hi + 1)..Len(x) : IsSpace(x[j])
        /\ hi > lo => ~IsSpace(x[lo + 1]) /\ ~IsSpace(x[hi])
        /\ Len(n) = hi - lo
        /\ \A j \in 1..Len(n) :
              /\ SameLetter(n[j], x[lo + j])
              /\ j = 1 => n[j] \notin Range(LowerCase)
              /\ j > 1 => n[j] \notin Range(UpperCase)

\* the trimmed, capitalized names of x and y are equal
SameKey(x, y) ==
    \E lo \in 0..Len(x) : \E hi \in lo..Len(x) :
        LET n == [j \in 1..(hi - lo) |->
                    IF j = 1 THEN Upper(x[lo + j]) ELSE Lower(x[lo + j])]
        IN  TrimCap(x, n) /\ TrimCap(y, n)

K == uploaded_file.k
UploadRows == 1..Len(uploaded_file.rows)
Boundaries == 1..Len(BoundaryNames)

\* the raw upload names whose key is that of boundary record b
NamesMatching == [b \in Boundaries |->
                    {x \in UploadNames : SameKey(x, BoundaryNames[b])}]

\* the uploaded rows whose key is that of boundary record b
MatchingRows(b) ==
    {u \in UploadRows : uploaded_file.rows[u].country \in NamesMatching[b]}

\* the first metric cell of uploaded row u is not blank
FirstCellPresent(u) == K >= 1 /\ uploaded_file.rows[u].pattern # "blankfirst"

JoinedRows == 1..Len(merged_gdf)
Carrying(b) == {r \in JoinedRows : merged_gdf[r].b = b}

Merged == "merged_gdf" \in bound
Filtered == Merged /\ pc # "dropna"
LayerBuilt == pc \in {"loop", "render", "legend"} \/ (pc = "done" /\ "m" \in bound)
LoopDone == pc \in {"render", "legend"} \/ (pc = "done" /\ "m" \in bound)

Max(a, b) == IF a > b THEN a ELSE b

---------------------------------------------------------------------------
(* C1 *)

\* C1 as stated: in the joined record set every boundary record appears at
\* most once (the number of joined records carrying it is 0 or 1); read here
\* on the final joined set.
C1_AtMostOnce ==
    Filtered => \A b \in Boundaries : Cardinality(Carrying(b)) <= 1

\* C1 amended: the merge yields, for a boundary record, one joined record per
\* uploaded row with its normalized name, and exactly one when no uploaded row
\* matches; after the geometry filter a record without geometry has none.
C1_LeftJoinMultiplicity ==
    Merged => \A b \in Boundaries :
        Cardinality(Carrying(b)) =
            IF remote[b] = "absent" \/ (Filtered /\ remote[b] = "none") THEN 0
            ELSE Max(1, Cardinality(MatchingRows(b)))

C1_Witness ==
    /\ Filtered
    /\ \E b \in Boundaries : Cardinality(Carrying(b)) = 2
    /\ \E b \in Boundaries : Cardinality(Carrying(b)) = 1 /\ MatchingRows(b) = {}

---------------------------------------------------------------------------
(* C2 *)

---------------------------------------------------------------------------
(* C3 *)

\* C3 as stated: a joined record is filled "red" when it has a matching
\* uploaded row and "grey" when it has none; read here on uploads with
\* several metric columns.
C3_MatchedIsRed ==
    LayerBuilt /\ K > 1 => \A r \in JoinedRows :
        m.layer[r] = IF merged_gdf[r].u # 0 THEN "red" ELSE "grey"

\* C3 amended: a joined record is filled "red" exactly when its first metric
\* column is present, whatever its value (zero included), and "grey"
\* otherwise: an unmatched record is grey, and so is a matched record whose
\* first metric cell is blank.
C3_FirstMetricDecides ==
    LayerBuilt =>
        /\ Len(m.layer) = Len(merged_gdf)
        /\ \A r \in JoinedRows :
              m.layer[r] = IF merged_gdf[r].u # 0 /\ FirstCellPresent(merged_gdf[r].u)
                           THEN "red" ELSE "grey"

\* the sample row India,10,4,3,0,0,0 is red, an all-zero row is red, and an
\* unmatched boundary record is grey
C3_Witness ==
    /\ LayerBuilt
    /\ K = Len(IndiaRow)
    /\ \E r \in JoinedRows :
          /\ merged_gdf[r].u # 0
          /\ uploaded_file.rows[merged_gdf[r].u].pattern = "india"
          /\ merged_gdf[r].vals[1] = Val(10)
          /\ m.layer[r] = "red"
    /\ \E r \in JoinedRows :
          /\ merged_gdf[r].u # 0
          /\ \A j \in 1..K : merged_gdf[r].vals[j] = Val(0)
          /\ m.layer[r] = "red"
    /\ \E r \in JoinedRows : merged_gdf[r].u = 0 /\ m.layer[r] = "grey"

---------------------------------------------------------------------------
(* C4 *)

NothingProduced ==
    /\ bound \cap {"world_gdf", "merged_gdf", "m", "color_dict"} = {}
    /\ merged_gdf = <<>>
    /\ m = EmptyMap
    /\ ~page.map
    /\ page.map_markers = <<>>
    /\ page.legend = <<>>

\* C4: the fetch error message is on the page exactly when the run has been
\* stopped at the failed fetch; such a run has produced no join, no map, no
\* marker and no legend; every other failure is uncaught (an exception, and
\* no error message); a run that fetched the dataset shows no error message.
C4_FetchFailureHalts ==
    /\ page.error <=> pc = "stopped"
    /\ pc = "stopped" => NothingProduced /\ ~page.exception /\ exc = ""
    /\ pc = "crashed" <=> page.exception
    /\ pc = "crashed" => exc # "" /\ ~page.error
    /\ "world_gdf" \in bound => ~page.error

C4_Witness ==
    /\ pc = "stopped"
    /\ page.error
    /\ uploaded_file.kind = "csv"
    /\ uploaded_file.rows # <<>>

---------------------------------------------------------------------------
(* C5 *)

TooManyColumns == uploaded_file.kind = "csv" /\ K > Len(colors)

NoColourReused ==
    "color_dict" \in bound =>
        /\ Len(color_dict) = K
        /\ \A j \in 1..K : color_dict[j] = colors[j]
        /\ \A j1, j2 \in 1..K : color_dict[j1] = color_dict[j2] => j1 = j2

\* C5 as stated: with more than six metric columns every run fails, at the
\* construction of the colour mapping.
C5_EveryRunFailsAtColours ==
    TooManyColumns /\ pc \in Final => pc = "crashed" /\ exc = "color_dict"

\* C5 amended: with more than six metric columns, every run whose boundary
\* fetch succeeds fails at the construction of the colour mapping, and a run
\* whose fetch fails is stopped earlier with the fetch error message; either
\* way no layer, marker, map or legend is produced; and no run truncates the
\* metric columns or reuses a colour.
C5_PaletteOverflowFails ==
    /\ NoColourReused
    /\ TooManyColumns =>
          /\ pc \notin {"geojson", "loop", "render", "legend", "done"}
          /\ "color_dict" \notin bound
          /\ m = EmptyMap
          /\ ~page.map /\ page.map_markers = <<>> /\ page.legend = <<>>
          /\ pc = "crashed" => exc = "color_dict"
          /\ pc \in Final /\ "world_gdf" \in bound =>
                pc = "crashed" /\ exc = "color_dict"
          /\ pc \in Final /\ "world_gdf" \notin bound =>
                pc = "stopped" /\ page.error

C5_Witness ==
    /\ TooManyColumns
    /\ pc = "crashed"
    /\ exc = "color_dict"
    /\ "m" \in bound
    /\ merged_gdf # <<>>

---------------------------------------------------------------------------
(* C6 *)

---------------------------------------------------------------------------
(* C7 *)

Normalized == "world_gdf" \in bound /\ pc # "normalize"

---------------------------------------------------------------------------
(* C8 *)

MarkersOf(r) == {k \in 1..Len(m.markers) : m.markers[k].row = r}

\* the joined record has data: it comes from an uploaded row whose first
\* metric cell is present
RecordHasData(r) == merged_gdf[r].u # 0 /\ FirstCellPresent(merged_gdf[r].u)

\* C8: after the thumbnail loop a joined record has a marker (exactly one) if
\* and only if it has data and its geometry is valid and not empty; every
\* record with a marker is filled "red" and no "grey" record has a marker.
C8_MarkerIffDataAndGeometry ==
    LoopDone =>
        /\ \A r \in JoinedRows :
              /\ (MarkersOf(r) # {}) <=>
                    (RecordHasData(r) /\ remote[merged_gdf[r].b] = "polygon")
              /\ Cardinality(MarkersOf(r)) <= 1
              /\ MarkersOf(r) # {} => m.layer[r] = "red"
              /\ m.layer[r] = "grey" => MarkersOf(r) = {}
        /\ \A k \in 1..Len(m.markers) : m.markers[k].row \in JoinedRows

C8_Witness ==
    /\ LoopDone
    /\ \E r \in JoinedRows : MarkersOf(r) # {}
    /\ \E r \in JoinedRows :
          RecordHasData(r) /\ merged_gdf[r].geometry \in {"invalid", "empty"}
                           /\ MarkersOf(r) = {}

---------------------------------------------------------------------------
(* C9 *)

Completed == pc = "done" /\ "m" \in bound /\ page.map /\ page.legend = color_dict
ZeroMatches == \A r \in JoinedRows : merged_gdf[r].u = 0
InvalidGeometry == \E r \in JoinedRows : ~is_valid(merged_gdf[r].geometry)

---------------------------------------------------------------------------
(* C10 *)

SomeGeometry == \E b \in Boundaries : remote[b] \notin {"absent", "none"}

\* C10: when a run is at, or past, the map render step with a fetched
\* boundary dataset that has a record with geometry, the upload has between
\* one and six metric columns; an upload with no metric column never gets a
\* rendered map there.
C10_RenderNeedsOneToSixMetrics ==
    (pc \in {"render", "legend"} \/ page.map) /\ "world_gdf" \in bound /\ SomeGeometry
        => K >= 1 /\ K <= Len(colors)

C10_Witness ==
    /\ page.map
    /\ SomeGeometry
    /\ K = 1
    /\ page.map_markers # <<>>

====
